---- MODULE Spec2Model ----
(***************************************************************************)
(* Dubins path lengths (src/src/Dubins.cpp): dubinsPathLength,             *)
(* dubinsTourCost and buildDubinsAdjacencyMatrix.                          *)
(*                                                                         *)
(* Numbers.  A C++ double is modelled as a record: [nan |-> TRUE, v |-> 0] *)
(* is NaN, [nan |-> FALSE, v |-> n] is the fixed-point number n / Scale.   *)
(* Angles are whole degrees (2*pi = 360); sin, cos, asin, acos and atan2   *)
(* are computed from a sine table of TrigScale-ths, sqrt is the integer    *)
(* square root.  Comparisons the code makes on doubles (dist < 3.0*r,      *)
(* 2.0*r/ls > 1.0) are made exactly, on the squares or by cross            *)
(* multiplication.                                                         *)
(***************************************************************************)
EXTENDS Integers, Sequences, FiniteSets, TLC

\* ---------------------------------------------------------------- bounds
\* Grid half-width of the end pose of a single dubinsPathLength call.
MaxCoord == 4
\* Largest turn radius tried.
MaxR == 2
\* Longest caller tour.
MaxTour == 3
\* Number of nodes of the graph.
NumNodes == 2

Scale == 10 * 10 * 10
TrigScale == 10 * Scale

\* ------------------------------------------------------- double arithmetic
NaN == [nan |-> TRUE, v |-> 0]
Num(n) == [nan |-> FALSE, v |-> n]

\* a + b on doubles: NaN if either operand is NaN.
Add(a, b) == IF a.nan \/ b.nan THEN NaN ELSE Num(a.v + b.v)

\* a < b on doubles: every comparison with NaN is false.
Less(a, b) == ~a.nan /\ ~b.nan /\ a.v < b.v

Abs(n) == IF n < 0 THEN -n ELSE n

RECURSIVE SqrtSearch(_, _, _)
SqrtSearch(n, lo, hi) ==
    IF lo >= hi THEN lo
    ELSE LET mid == (lo + hi + 1) \div 2
         IN  IF mid * mid <= n THEN SqrtSearch(n, mid, hi)
                               ELSE SqrtSearch(n, lo, mid - 1)

\* floor(sqrt(n)) for 0 <= n < 2^31.
Isqrt(n) == SqrtSearch(n, 0, 46340)

\* sqrt on doubles: NaN for a negative argument.
Sqrt(n) == IF n < 0 THEN NaN ELSE Num(Isqrt(n))

\* Eigen's Vector::norm() of the vector (dx, dy).
Norm(dx, dy) == Isqrt(dx * dx + dy * dy)

SinTab ==
    << 0, 175, 349, 523, 698, 872, 1045, 1219, 1392, 1564, 1736, 1908, 2079,
       2250, 2419, 2588, 2756, 2924, 3090, 3256, 3420, 3584, 3746, 3907,
       4067, 4226, 4384, 4540, 4695, 4848, 5000, 5150, 5299, 5446, 5592,
       5736, 5878, 6018, 6157, 6293, 6428, 6561, 6691, 6820, 6947, 7071,
       7193, 7314, 7431, 7547, 7660, 7771, 7880, 7986, 8090, 8192, 8290,
       8387, 8480, 8572, 8660, 8746, 8829, 8910, 8988, 9063, 9135, 9205,
       9272, 9336, 9397, 9455, 9511, 9563, 9613, 9659, 9703, 9744, 9781,
       9816, 9848, 9877, 9903, 9925, 9945, 9962, 9976, 9986, 9994, 9998,
       10000 >>

\* sin of d degrees, in TrigScale-ths.
Sin(d) ==
    LET w == d % 360
    IN  IF w <= 90 THEN SinTab[w + 1]
        ELSE IF w <= 180 THEN SinTab[180 - w + 1]
        ELSE IF w <= 270 THEN -SinTab[w - 180 + 1]
        ELSE -SinTab[360 - w + 1]

Cos(d) == Sin(d + 90)

\* The largest a in lo..hi with SinTab[a+1] * den <= num * TrigScale.
RECURSIVE AsinSearch(_, _, _, _)
AsinSearch(num, den, lo, hi) ==
    IF lo >= hi THEN lo
    ELSE LET mid == (lo + hi + 1) \div 2
         IN  IF SinTab[mid + 1] * den <= num * TrigScale
             THEN AsinSearch(num, den, mid, hi)
             ELSE AsinSearch(num, den, lo, mid - 1)

\* The quotient num/den of two doubles as the code's inverse-trig argument
\* sees it: den = 0 gives +-inf (num # 0) or NaN (num = 0).
OutOfRange(num, den) ==
    IF den = 0 THEN num # 0 ELSE num > den \/ num < -den

\* asin(num/den) in degrees, den >= 0: NaN outside [-1, 1] and for 0/0.
Asin(num, den) ==
    IF den = 0 \/ OutOfRange(num, den) THEN NaN
    ELSE IF num >= 0 THEN Num(AsinSearch(num, den, 0, 90))
    ELSE Num(-AsinSearch(-num, den, 0, 90))

\* acos(num/den) in degrees.
Acos(num, den) ==
    LET a == Asin(num, den) IN IF a.nan THEN NaN ELSE Num(90 - a.v)

\* The largest a in lo..hi with tan(a) <= y/x, for x, y >= 0.
RECURSIVE AtanSearch(_, _, _, _)
AtanSearch(y, x, lo, hi) ==
    IF lo >= hi THEN lo
    ELSE LET mid == (lo + hi + 1) \div 2
         IN  IF Sin(mid) * x <= Cos(mid) * y
             THEN AtanSearch(y, x, mid, hi)
             ELSE AtanSearch(y, x, lo, mid - 1)

\* atan2(y, x) in degrees, in (-180, 180]; atan2(0, 0) = 0.
Atan2(y, x) ==
    IF x = 0 /\ y = 0 THEN 0
    ELSE LET a == AtanSearch(Abs(y), Abs(x), 0, 90)
         IN  IF x >= 0 /\ y >= 0 THEN a
             ELSE IF x < 0 /\ y >= 0 THEN 180 - a
             ELSE IF x < 0 /\ y < 0 THEN a - 180
             ELSE -a

\* r * theta for a radius r (in units) and an angle of deg degrees:
\* r * deg * pi/180, with pi/180 taken as 349/20000, in Scale-ths.
ArcLen(r, deg) == (r * deg * 349) \div 20

\* ------------------------------------------------------------ Util.h
\* headingToAngle: a heading (0 at the y-axis, counter-clockwise positive)
\* to a standard angle (0 at the x-axis).
headingToAngle(h) == h + 90

\* wrapAngle: into [0, 2*pi).
wrapAngle(a) == a % 360

\* headingBetween: the heading of the vector from a to b.
headingBetween(a, b) == wrapAngle(Atan2(b.y - a.y, b.x - a.x) - 90)

\* ------------------------------------------------- dubinsPathLength
\* A Configuration is [x, y, m_heading]: a position in whole units and a
\* heading in degrees.  Points are [x, y] in Scale-ths.
Position(C) == [x |-> C.x * Scale, y |-> C.y * Scale]

\* r * c for a cos/sin value c in TrigScale-ths, in Scale-ths.
TimesTrig(r, c) ==
    LET p == r * Scale * c
    IN  IF p >= 0 THEN p \div TrigScale ELSE -((-p) \div TrigScale)

\* P + r * (cos(ang), sin(ang)): a turning-circle centre.
Centre(C, r, ang) ==
    [x |-> Position(C).x + TimesTrig(r, Cos(ang)),
     y |-> Position(C).y + TimesTrig(r, Sin(ang))]

PC_rs(Cs, r) == Centre(Cs, r, headingToAngle(Cs.m_heading) - 90)
PC_ls(Cs, r) == Centre(Cs, r, headingToAngle(Cs.m_heading) + 90)
PC_re(Ce, r) == Centre(Ce, r, headingToAngle(Ce.m_heading) - 90)
PC_le(Ce, r) == Centre(Ce, r, headingToAngle(Ce.m_heading) + 90)

\* (a - b).norm()
Dist(a, b) == Norm(a.x - b.x, a.y - b.y)

\* dist = (Ps - Pe).norm()
dist(Cs, Ce) == Dist(Position(Cs), Position(Ce))

\* The distance check with the radius left out of the threshold.
TooShortNoRadius(Cs, Ce, r) == dist(Cs, Ce) < 3 * Scale

\* if (dist < 3.0 * r)
TooShort(Cs, Ce, r) == dist(Cs, Ce) < 3 * r * Scale

\* The value of "return -1.0".
Failure == Num(-Scale)

\* r*wrapAngle(2.0*M_PI + wrapAngle(a) - wrapAngle(b))
Sweep(r, a, b) == ArcLen(r, wrapAngle(360 + wrapAngle(a) - wrapAngle(b)))

\* Case I, R-S-R
L1(Cs, Ce, r) ==
    LET x  == headingBetween(PC_rs(Cs, r), PC_re(Ce, r))
        Xs == Cs.m_heading
        Xe == Ce.m_heading
    IN  Num(Dist(PC_rs(Cs, r), PC_re(Ce, r))
            + Sweep(r, x - 90, Xs - 90) + Sweep(r, Xe - 90, x - 90))

\* Case II: ls = (PC_le - PC_rs).norm()
ls2(Cs, Ce, r) == Dist(PC_le(Ce, r), PC_rs(Cs, r))

\* Case II, R-S-L: no range check guards asin or sqrt, so a NaN from
\* either propagates through +, * and wrapAngle into L2.
L2(Cs, Ce, r) ==
    LET ls == ls2(Cs, Ce, r)
        x  == headingBetween(PC_rs(Cs, r), PC_le(Ce, r))
        as == Asin(2 * r * Scale, ls)
        sq == Sqrt(ls * ls - 4 * r * r * Scale * Scale)
        Xs == Cs.m_heading
        Xe == Ce.m_heading
    IN  IF as.nan \/ sq.nan THEN NaN
        ELSE LET x2 == x - 90 + as.v
             IN  Num(sq.v + Sweep(r, x2, Xs - 90) + Sweep(r, x2 + 180, Xe + 90))

\* Case III: ls = (PC_re - PC_ls).norm()
ls3(Cs, Ce, r) == Dist(PC_re(Ce, r), PC_ls(Cs, r))

\* The range check with only its lower half: 2.0*r/ls < -1.0.
CaseIIILowerOnly(Cs, Ce, r) ==
    ls3(Cs, Ce, r) # 0 /\ 2 * r * Scale < -ls3(Cs, Ce, r)

\* if (2.0*r/ls > 1.0 || 2.0*r/ls < -1.0)
CaseIIIOutOfRange(Cs, Ce, r) == OutOfRange(2 * r * Scale, ls3(Cs, Ce, r))

\* Case III, L-S-R, once the range check has passed.
L3(Cs, Ce, r) ==
    LET ls == ls3(Cs, Ce, r)
        x  == headingBetween(PC_ls(Cs, r), PC_re(Ce, r))
        ac == Acos(2 * r * Scale, ls)
        sq == Sqrt(ls * ls - 4 * r * r * Scale * Scale)
        Xs == Cs.m_heading
        Xe == Ce.m_heading
    IN  IF ac.nan \/ sq.nan THEN NaN
        ELSE LET x2 == ac.v
             IN  Num(sq.v + Sweep(r, Xs + 90, x + x2)
                     + Sweep(r, Xe - 90, x + x2 - 180))

\* Case IV, L-S-L
L4(Cs, Ce, r) ==
    LET x  == headingBetween(PC_ls(Cs, r), PC_le(Ce, r))
        Xs == Cs.m_heading
        Xe == Ce.m_heading
    IN  Num(Dist(PC_ls(Cs, r), PC_le(Ce, r))
            + Sweep(r, Xs + 90, x + 90) + Sweep(r, x + 90, Xe + 90))

\* std::min over an initializer list: the first element that no later
\* element compares less than.
RECURSIVE MinFrom(_, _, _)
MinFrom(s, k, smallest) ==
    IF k > Len(s) THEN smallest
    ELSE MinFrom(s, k + 1, IF Less(s[k], smallest) THEN s[k] ELSE smallest)

StdMin(s) == MinFrom(s, 2, s[1])

\* The value dubinsPathLength returns.
dubinsPathLength(Cs, Ce, r) ==
    IF TooShort(Cs, Ce, r) THEN Failure
    ELSE IF CaseIIIOutOfRange(Cs, Ce, r) THEN Failure
    ELSE StdMin(<< L1(Cs, Ce, r), L2(Cs, Ce, r), L3(Cs, Ce, r), L4(Cs, Ce, r) >>)

\* What dubinsPathLength writes to std::cerr.
Diagnostic(Cs, Ce, r) ==
    IF TooShort(Cs, Ce, r) THEN << "distance must be larger than 3*r" >>
    ELSE IF CaseIIIOutOfRange(Cs, Ce, r) THEN << "angle out of range in case III" >>
    ELSE << >>

\* #define MAX_EDGE_COST 999999.0
MAX_EDGE_COST == 999999

\* ------------------------------------------------------------------ state
VARIABLES
    \* one call of dubinsPathLength, statement by statement
    Cs, Ce, r,      \* the arguments
    ppc,            \* position in dubinsPathLength
    L,              \* the candidate lengths computed so far, L1 first
    ret,            \* the value returned
    cerr,           \* the lines written to std::cerr
    \* the caller's graph and the aggregation layer
    GA,             \* node -> [x, y]
    X,              \* node -> heading
    turnRadius,
    tour,           \* the caller's list of nodes
    returnCost,
    pc,             \* position in dubinsTourCost / buildDubinsAdjacencyMatrix
    modTour, m, i, iter, cost,   \* the locals of dubinsTourCost
    pastEnd,        \* iter.succ() was dereferenced past the last element
    calls,          \* the <<u, v>> pairs dubinsPathLength was called with
    result,         \* the value dubinsTourCost returned
    A,              \* the NodeMatrix being filled
    writes,         \* how often each cell of A was assigned
    mi, mj          \* the loop nodes i, j of buildDubinsAdjacencyMatrix

pathVars == << Cs, Ce, r, ppc, L, ret >>
graphVars == << GA, X, turnRadius >>
tourVars == << tour, returnCost, modTour, m, i, iter, cost, pastEnd, result >>
matrixVars == << A, writes, mi, mj >>
vars == << pathVars, cerr, graphVars, tourVars, matrixVars, pc, calls >>

Nodes == 1 .. NumNodes

\* Headings given to single calls: any real value is allowed, so some lie
\* outside [0, 360).
Headings == { -90, 0, 45, 90, 180, 270, 450 }
Radii == -1 .. MaxR
Coords == -MaxCoord .. MaxCoord

\* The poses the graph's nodes are drawn from.  Positions are 0, 3, 4 or 5
\* apart: with r = 1 every edge between two positions is at least 3r long
\* (the edge from (0,0,180) to (3,0,180) is 3r long and fails in case III),
\* with r = 2 every edge is too short.
GraphPoses ==
    { [x |-> 0, y |-> 0, m_heading |-> 0],
      [x |-> 0, y |-> 0, m_heading |-> 180],
      [x |-> 3, y |-> 0, m_heading |-> 180],
      [x |-> 0, y |-> 4, m_heading |-> 0] }
GraphRadii == { 1, 2 }

\* Configuration Cu(GA.x(u), GA.y(u), X(u))
Configuration(n) == [x |-> GA[n].x, y |-> GA[n].y, m_heading |-> X[n]]

Tours == UNION { [1 .. n -> Nodes] : n \in 0 .. MaxTour }

NoPath ==
    /\ Cs = [x |-> 0, y |-> 0, m_heading |-> 0]
    /\ Ce = [x |-> 0, y |-> 0, m_heading |-> 0]
    /\ r = 1
    /\ ppc = "off"
    /\ L = << >>
    /\ ret = Num(0)

NoAggregation ==
    /\ tour = << >>
    /\ returnCost = FALSE
    /\ modTour = << >>
    /\ m = 0
    /\ i = 0
    /\ iter = 0
    /\ cost = Num(0)
    /\ pastEnd = FALSE
    /\ calls = << >>
    /\ result = Num(0)
    /\ A = [a \in Nodes |-> [b \in Nodes |-> Num(0)]]
    /\ writes = [a \in Nodes |-> [b \in Nodes |-> 0]]
    /\ mi = 0
    /\ mj = 0

\* ------------------------------------- dubinsPathLength, step by step
InitPath ==
    /\ Cs \in [x : {0}, y : {0}, m_heading : Headings]
    /\ Ce \in [x : Coords, y : Coords, m_heading : Headings]
    /\ r \in Radii
    /\ ppc = "entry"
    /\ L = << >>
    /\ ret = Num(0)
    /\ cerr = << >>
    /\ GA = [n \in Nodes |-> [x |-> 0, y |-> 0]]
    /\ X = [n \in Nodes |-> 0]
    /\ turnRadius = 1
    /\ pc = "off"
    /\ NoAggregation

\* Lines 41-55: the distance check.
CheckDist ==
    /\ ppc = "entry"
    /\ IF TooShort(Cs, Ce, r)
       THEN /\ cerr' = Append(cerr, "distance must be larger than 3*r")
            /\ ret' = Failure
            /\ ppc' = "returned"
       ELSE /\ ppc' = "caseI"
            /\ UNCHANGED << cerr, ret >>
    /\ UNCHANGED << Cs, Ce, r, L, graphVars, tourVars, matrixVars, pc, calls >>

\* Lines 57-91: the circle centres and case I.
CaseI ==
    /\ ppc = "caseI"
    /\ L' = << L1(Cs, Ce, r) >>
    /\ ppc' = "caseII"
    /\ UNCHANGED << Cs, Ce, r, ret, cerr, graphVars, tourVars, matrixVars, pc, calls >>

\* Lines 97-103: case II.
CaseII ==
    /\ ppc = "caseII"
    /\ L' = Append(L, L2(Cs, Ce, r))
    /\ ppc' = "caseIII"
    /\ UNCHANGED << Cs, Ce, r, ret, cerr, graphVars, tourVars, matrixVars, pc, calls >>

\* Lines 110-120: case III and its range check.
CaseIII ==
    /\ ppc = "caseIII"
    /\ IF CaseIIIOutOfRange(Cs, Ce, r)
       THEN /\ cerr' = Append(cerr, "angle out of range in case III")
            /\ ret' = Failure
            /\ ppc' = "returned"
            /\ UNCHANGED L
       ELSE /\ L' = Append(L, L3(Cs, Ce, r))
            /\ ppc' = "caseIV"
            /\ UNCHANGED << cerr, ret >>
    /\ UNCHANGED << Cs, Ce, r, graphVars, tourVars, matrixVars, pc, calls >>

\* Lines 125-136: case IV and the minimum.
CaseIV ==
    /\ ppc = "caseIV"
    /\ L' = Append(L, L4(Cs, Ce, r))
    /\ ret' = StdMin(L')
    /\ ppc' = "returned"
    /\ UNCHANGED << Cs, Ce, r, cerr, graphVars, tourVars, matrixVars, pc, calls >>

NextPath == CheckDist \/ CaseI \/ CaseII \/ CaseIII \/ CaseIV

SpecPath == InitPath /\ [][NextPath]_vars

\* --------------------------------------------------- the aggregation layer
Init ==
    /\ \E f \in [Nodes -> GraphPoses] :
          /\ GA = [n \in Nodes |-> [x |-> f[n].x, y |-> f[n].y]]
          /\ X = [n \in Nodes |-> f[n].m_heading]
    /\ turnRadius \in GraphRadii
    /\ pc = "idle"
    /\ cerr = << >>
    /\ NoPath
    /\ NoAggregation

\* The caller holds a tour and calls dubinsTourCost(G, GA, tour, X, r, rc).
CallTourCost ==
    /\ pc = "idle"
    /\ \E t \in Tours, rc \in BOOLEAN :
          /\ tour' = t
          /\ returnCost' = rc
    /\ pc' = "tourEntry"
    /\ UNCHANGED << pathVars, cerr, graphVars, modTour, m, i, iter, cost,
                    pastEnd, result, matrixVars, calls >>

\* ogdf::List<ogdf::node> modTour(tour);
\* if (returnCost) modTour.pushBack(*(tour.begin()));
ModTour(t, rc) == IF rc THEN Append(t, Head(t)) ELSE t

\* modTour as a reference to the caller's list: the pushBack reaches it.
TourAliased(t, rc) == ModTour(t, rc)

\* The caller's list after lines 153-156: modTour is a copy, so the
\* pushBack does not reach it.
TourAfterCopy(t, rc) == t

\* The edge count taken as the number of nodes.
EdgeCountAllNodes(mt) == Len(mt)

\* int m = modTour.size() - 1;
EdgeCount(mt) == Len(mt) - 1

\* The size check letting a single node through.
TooFewNodesEmptyOnly(t) == Len(t) < 1

\* if (tour.size() < 2) return 0.0;
TooFewNodes(t) == Len(t) < 2

\* Lines 147-159: the size check, the copy and the loop's initialisation.
TourEntry ==
    /\ pc = "tourEntry"
    /\ IF TooFewNodes(tour)
       THEN /\ result' = Num(0)
            /\ pc' = "tourRet"
            /\ UNCHANGED << tour, modTour, m, i, iter, cost >>
       ELSE /\ modTour' = ModTour(tour, returnCost)
            /\ tour' = TourAfterCopy(tour, returnCost)
            /\ m' = EdgeCount(modTour')
            /\ i' = 0
            /\ iter' = 1
            /\ cost' = Num(0)
            /\ pc' = "tourLoop"
            /\ UNCHANGED result
    /\ UNCHANGED << pathVars, cerr, graphVars, returnCost, pastEnd, matrixVars, calls >>

\* The loop condition: i < m && iter != modTour.end()
TourLoopCond == i < m /\ iter <= Len(modTour)

\* Lines 160-167: one iteration.  *(iter.succ()) past the last element
\* dereferences an invalid iterator: v is then any node.
TourStep ==
    /\ pc = "tourLoop"
    /\ TourLoopCond
    /\ \E v \in Nodes :
          /\ IF iter + 1 <= Len(modTour)
             THEN v = modTour[iter + 1] /\ pastEnd' = pastEnd
             ELSE pastEnd' = TRUE
          /\ LET u  == modTour[iter]
                 Cu == Configuration(u)
                 Cv == Configuration(v)
             IN  /\ cost' = Add(cost, dubinsPathLength(Cu, Cv, turnRadius))
                 /\ cerr' = cerr \o Diagnostic(Cu, Cv, turnRadius)
                 /\ calls' = Append(calls, << u, v >>)
    /\ i' = i + 1
    /\ iter' = iter + 1
    /\ UNCHANGED << pathVars, graphVars, tour, returnCost, modTour, m, result,
                    matrixVars, pc >>

\* Line 169: return cost.
TourReturn ==
    /\ pc = "tourLoop"
    /\ ~TourLoopCond
    /\ result' = cost
    /\ pc' = "tourRet"
    /\ UNCHANGED << pathVars, cerr, graphVars, tour, returnCost, modTour, m, i,
                    iter, cost, pastEnd, matrixVars, calls >>

\* The caller calls buildDubinsAdjacencyMatrix(G, GA, A, X, turnRadius);
\* forall_nodes starts both loops at the first node.
CallBuildMatrix ==
    /\ pc = "idle"
    /\ mi' = 1
    /\ mj' = 1
    /\ pc' = "matrixLoop"
    /\ UNCHANGED << pathVars, cerr, graphVars, tourVars, A, writes, calls >>

\* The inner loop without its i == j branch.
CellNoDiagonal(a, b) ==
    dubinsPathLength(Configuration(a), Configuration(b), turnRadius)

\* The value assigned to A[a][b] in lines 185-192.
Cell(a, b) ==
    IF a = b THEN Num(MAX_EDGE_COST * Scale)
    ELSE dubinsPathLength(Configuration(a), Configuration(b), turnRadius)

\* Lines 184-193: one iteration of the inner loop.
MatrixStep ==
    /\ pc = "matrixLoop"
    /\ mi <= NumNodes
    /\ A' = [A EXCEPT ![mi][mj] = Cell(mi, mj)]
    /\ writes' = [writes EXCEPT ![mi][mj] = @ + 1]
    /\ IF mi = mj
       THEN UNCHANGED << calls, cerr >>
       ELSE /\ calls' = Append(calls, << mi, mj >>)
            /\ cerr' = cerr \o Diagnostic(Configuration(mi), Configuration(mj), turnRadius)
    /\ IF mj < NumNodes
       THEN mj' = mj + 1 /\ mi' = mi
       ELSE mj' = 1 /\ mi' = mi + 1
    /\ UNCHANGED << pathVars, graphVars, tourVars, pc >>

\* Line 195: the outer loop is over.
MatrixReturn ==
    /\ pc = "matrixLoop"
    /\ mi > NumNodes
    /\ pc' = "matrixRet"
    /\ UNCHANGED << pathVars, cerr, graphVars, tourVars, matrixVars, calls >>

Next ==
    \/ CallTourCost
    \/ TourEntry
    \/ TourStep
    \/ TourReturn
    \/ CallBuildMatrix
    \/ MatrixStep
    \/ MatrixReturn

Spec == Init /\ [][Next]_vars

\* ============================================ properties of dubinsPathLength
\* The squared distance between the two positions, in whole units.
SqDist == (Cs.x - Ce.x) * (Cs.x - Ce.x) + (Cs.y - Ce.y) * (Cs.y - Ce.y)

\* C1: for r > 0 and two positions closer than 3r (identical poses
\* included), once the distance check has run the call has returned -1.0,
\* with the distance diagnostic and with none of the four candidate
\* lengths computed.
C1_TooShortReturnsSentinel ==
    (ppc # "entry" /\ r > 0 /\ SqDist < 9 * r * r)
        => /\ ppc = "returned"
           /\ ret = Num(-Scale)
           /\ L = << >>
           /\ cerr = << "distance must be larger than 3*r" >>

\* C1 witness: a call on identical poses with r > 0 has returned -1.0.
C1_Witness ==
    /\ ppc = "returned"
    /\ r > 0
    /\ Cs = Ce
    /\ ret = Num(-Scale)

\* C2 as stated: for r > 0 and positions at least 3r apart, the call
\* returns a non-negative length, never the sentinel.
C2_NeverFailsFrom3r ==
    (ppc = "returned" /\ r > 0 /\ SqDist >= 9 * r * r)
        => (~ret.nan /\ ret.v >= 0)

\* C2 amended: for r > 0 and positions at least 3r apart, the call
\* returns -1.0 with the case III diagnostic exactly when the distance ls
\* between the start pose's left-turn centre and the end pose's right-turn
\* centre is below 2r, and a non-negative length otherwise.
C2_FailsOnlyInCaseIII ==
    (ppc = "returned" /\ r > 0 /\ SqDist >= 9 * r * r)
        => IF ls3(Cs, Ce, r) < 2 * r * Scale
           THEN /\ ret = Num(-Scale)
                /\ cerr = << "angle out of range in case III" >>
           ELSE /\ ~ret.nan
                /\ ret.v >= 0
                /\ cerr = << >>
                /\ Len(L) = 4

\* C2 witness: a call at the boundary distance 3r has returned a
\* non-negative length.
C2_Witness ==
    /\ ppc = "returned"
    /\ r > 0
    /\ SqDist = 9 * r * r
    /\ ~ret.nan
    /\ ret.v >= 0
    /\ Len(L) = 4

\* C4: when the candidates were evaluated for an r > 0 and the argument
\* 2r/ls of the asin of case II or of the acos of case III lies outside
\* [-1, 1], the call returns -1.0.
C4_OutOfRangeReturnsSentinel ==
    (/\ ppc = "returned"
     /\ r > 0
     /\ Len(L) >= 2
     /\ \/ OutOfRange(2 * r * Scale, ls2(Cs, Ce, r))
        \/ OutOfRange(2 * r * Scale, ls3(Cs, Ce, r)))
        => ret = Num(-Scale)

\* C5: a call with r <= 0 fails: it returns a negative value (the
\* sentinel is -1.0), whatever the two poses are.
C5_NonPositiveRadiusFails ==
    (ppc = "returned" /\ r <= 0) => (~ret.nan /\ ret.v < 0)

\* ========================================= properties of the aggregation
\* The edges of tour t in travel order, with the closing edge if rc.
ExpectedEdges(t, rc) ==
    [k \in 1 .. (Len(t) - 1) |-> << t[k], t[k + 1] >>]
        \o (IF rc THEN << << t[Len(t)], t[1] >> >> ELSE << >>)

\* dubinsPathLength of the edge e = <<u, v>> of the graph.
EdgeLength(e) ==
    dubinsPathLength(Configuration(e[1]), Configuration(e[2]), turnRadius)

\* The left-to-right sum of the lengths of the first n edges of e.
RECURSIVE EdgeSum(_, _)
EdgeSum(e, n) ==
    IF n = 0 THEN Num(0) ELSE Add(EdgeSum(e, n - 1), EdgeLength(e[n]))

\* C3: when dubinsPathLength failed on an edge of a tour of at least two
\* nodes, dubinsTourCost does not return a non-negative total.
C3_FailedEdgeFailsTour ==
    (/\ pc = "tourRet"
     /\ Len(tour) >= 2
     /\ \E k \in 1 .. Len(calls) : EdgeLength(calls[k]) = Num(-Scale))
        => (result.nan \/ result.v < 0)

\* C6: for a tour of n >= 2 nodes dubinsTourCost calls dubinsPathLength on
\* the n-1 consecutive pairs, then on (last, first) if returnCost, each
\* once and in tour order with start and end not swapped; the running cost
\* is the sum of the edges evaluated so far, the value returned the sum of
\* them all, and no successor is read past the last element.
C6_TourCostIsEdgeSum ==
    LET e == ExpectedEdges(tour, returnCost)
    IN  /\ ~pastEnd
        /\ pc = "tourLoop" =>
              /\ i <= Len(e)
              /\ calls = SubSeq(e, 1, i)
              /\ cost = EdgeSum(e, i)
        /\ (pc = "tourRet" /\ Len(tour) >= 2) =>
              /\ calls = e
              /\ Len(calls) = IF returnCost THEN Len(tour) ELSE Len(tour) - 1
              /\ result = EdgeSum(e, Len(e))

\* C6 witness: a tour of two distinct nodes with returnCost has returned
\* the sum of its two edges, out and back, neither of which failed.
C6_Witness ==
    /\ pc = "tourRet"
    /\ returnCost
    /\ Len(tour) = 2
    /\ calls = << << tour[1], tour[2] >>, << tour[2], tour[1] >> >>
    /\ tour[1] # tour[2]
    /\ \A k \in 1 .. 2 : EdgeLength(calls[k]).v > 0
    /\ EdgeLength(calls[1]) # EdgeLength(calls[2])
    /\ result.v = EdgeLength(calls[1]).v + EdgeLength(calls[2]).v

\* C7: for a tour of 0 or 1 nodes dubinsTourCost returns exactly 0 for
\* either returnCost, with no call of dubinsPathLength and no diagnostic.
C7_ShortTourCostsZero ==
    (pc = "tourRet" /\ Len(tour) < 2)
        => /\ result = Num(0)
           /\ calls = << >>
           /\ cerr = << >>

\* C7 witness: a one-node tour with returnCost has returned 0.
C7_Witness ==
    /\ pc = "tourRet"
    /\ Len(tour) = 1
    /\ returnCost
    /\ result = Num(0)

\* C8: after buildDubinsAdjacencyMatrix no cell of A is negative.
C8_NoNegativeCell ==
    pc = "matrixRet"
        => \A a \in Nodes, b \in Nodes : ~A[a][b].nan /\ A[a][b].v >= 0

\* C9: after buildDubinsAdjacencyMatrix every diagonal cell is 999999.0,
\* every off-diagonal cell A[a][b] is dubinsPathLength(pose a, pose b, r),
\* every cell was assigned exactly once, and dubinsPathLength was called
\* once for each ordered pair of distinct nodes and for no pair <<a, a>>.
C9_MatrixCells ==
    /\ \A k \in 1 .. Len(calls) : pc \in {"matrixLoop", "matrixRet"} => calls[k][1] # calls[k][2]
    /\ pc = "matrixRet" =>
          /\ \A a \in Nodes : A[a][a] = Num(999999 * Scale)
          /\ \A a \in Nodes, b \in Nodes :
                a # b => /\ A[a][b] = EdgeLength(<< a, b >>)
                         /\ Cardinality({k \in 1 .. Len(calls) : calls[k] = << a, b >>}) = 1
          /\ \A a \in Nodes, b \in Nodes : writes[a][b] = 1
          /\ Len(calls) = NumNodes * (NumNodes - 1)

\* C9 witness: a matrix over two nodes far enough apart is complete, and
\* its two off-diagonal cells differ.
C9_Witness ==
    /\ pc = "matrixRet"
    /\ A[1][1] = Num(999999 * Scale)
    /\ A[1][2].v > 0
    /\ A[2][1].v > 0
    /\ A[1][2] # A[2][1]

\* C10: no step of dubinsTourCost changes the caller's tour, the node
\* positions or the headings.
C10_TourOnlyRead ==
    [][(pc \in {"tourEntry", "tourLoop"})
          => (tour' = tour /\ GA' = GA /\ X' = X)]_vars

\* C10 witness: a call with returnCost on a tour of at least two nodes has
\* returned, its private copy one element longer than the caller's tour.
C10_Witness ==
    /\ pc = "tourRet"
    /\ returnCost
    /\ Len(tour) >= 2
    /\ Len(modTour) = Len(tour) + 1
    /\ Len(calls) = Len(tour)

====
